---- MODULE Spec2Model ----
(***************************************************************************)
(* A model of the sort transformation of the query engine                  *)
(* (src/unnamed/part_000): operation and procedure specifications, the     *)
(* transformation node with its block-builder cache and Dataset, and the   *)
(* key reordering done by sortedKey.                                       *)
(*                                                                         *)
(* A column (query.ColMeta) is modelled by its label.  A partition key is  *)
(* the pair of parallel arrays handed to execute.NewPartitionKey: cols and *)
(* vs.  Indices are those of the source (0-based); Sequences are 1-based,  *)
(* so element idx of a Go slice s is s[idx + 1].                           *)
(***************************************************************************)
EXTENDS Integers, Sequences, FiniteSets, TLC

\* ------------------------------------------------------------- bounds
MaxCols == 2        \* longest configured sort-column list
MaxKeyLen == 3      \* most columns in a partition key
MaxVal == 2         \* values are 1..MaxVal

Labels == {"a", "b", "c"}
Values == 1..MaxVal

\* The zero values Go's make() leaves in a fresh slice.
ZeroCol == ""
ZeroVal == "nil"

SeqsUpTo(S, n) == UNION {[1..k -> S] : k \in 0..n}
IsInjective(s) == \A i, j \in DOMAIN s : s[i] = s[j] => i = j

\* Every list of sort columns a query can configure (cols: [...]), lists
\* with a repeated label and the empty list included.
Configs == SeqsUpTo(Labels, MaxCols)

\* Partition keys: distinct columns, one value per column.
KeyCols == {s \in SeqsUpTo(Labels, MaxKeyLen) : IsInjective(s)}
Keys ==
    UNION {{[cols |-> c, vs |-> v] : v \in [1..Len(c) -> Values]} : c \in KeyCols}

\* ------------------------------------------------- collaborator helpers
\* execute.ColIdx(label, cols): index of the first column with that label,
\* or -1.
ColIdx(label, kcols) ==
    IF \E i \in DOMAIN kcols : kcols[i] = label
    THEN (CHOOSE i \in DOMAIN kcols :
            kcols[i] = label /\ \A h \in 1..(i - 1) : kcols[h] # label) - 1
    ELSE -1

\* execute.ContainsStr(strs, str)
ContainsStr(strs, str) == \E i \in DOMAIN strs : strs[i] = str

\* query.PartitionKey.HasCol(label)
HasCol(key, label) == ColIdx(label, key.cols) >= 0

\* execute.NewPartitionKey(cols, vs)
NewPartitionKey(kcols, kvs) == [cols |-> kcols, vs |-> kvs]

\* ------------------------------------------------------------ sortedKey
\* The scratch state of sortedKey: the two arrays made with the key's
\* length, the write index j, and whether a write fell outside them (Go
\* panics with index out of range).
sortedKeyStart(key) ==
    [cols |-> [i \in 1..Len(key.cols) |-> ZeroCol],
     vs |-> [i \in 1..Len(key.cols) |-> ZeroVal],
     j |-> 0,
     panic |-> FALSE]

\* cols[j] = key.Cols()[idx]; vs[j] = key.Value(idx); j++
sortedKeyPut(st, key, idx) ==
    IF st.panic THEN st
    ELSE IF st.j >= Len(key.cols) THEN [st EXCEPT !.panic = TRUE]
    ELSE [cols |-> [st.cols EXCEPT ![st.j + 1] = key.cols[idx + 1]],
          vs |-> [st.vs EXCEPT ![st.j + 1] = key.vs[idx + 1]],
          j |-> st.j + 1,
          panic |-> FALSE]

\* for _, label := range t.cols { idx := ColIdx(...); if idx >= 0 {...} }
RECURSIVE sortedKeyFirstLoop(_, _, _, _)
sortedKeyFirstLoop(st, tcols, key, n) ==
    IF n > Len(tcols) THEN st
    ELSE LET idx == ColIdx(tcols[n], key.cols)
         IN  sortedKeyFirstLoop(
                 IF idx >= 0 THEN sortedKeyPut(st, key, idx) ELSE st,
                 tcols, key, n + 1)

\* for idx, c := range key.Cols() { if !ContainsStr(t.cols, c.Label) {...} }
RECURSIVE sortedKeySecondLoop(_, _, _, _)
sortedKeySecondLoop(st, tcols, key, n) ==
    IF n > Len(key.cols) THEN st
    ELSE sortedKeySecondLoop(
             IF ~ContainsStr(tcols, key.cols[n])
             THEN sortedKeyPut(st, key, n - 1) ELSE st,
             tcols, key, n + 1)

\* A plausible slip: the remaining key columns are not appended.
sortedKeyNoRest(tcols, key) ==
    LET st == sortedKeyFirstLoop(sortedKeyStart(key), tcols, key, 1)
    IN  [panic |-> st.panic, key |-> NewPartitionKey(st.cols, st.vs)]

\* sortedKey: [panic |-> a write ran out of range, key |-> the key built]
sortedKey(tcols, key) ==
    LET st == sortedKeySecondLoop(
                  sortedKeyFirstLoop(sortedKeyStart(key), tcols, key, 1),
                  tcols, key, 1)
    IN  [panic |-> st.panic, key |-> NewPartitionKey(st.cols, st.vs)]

\* A plausible slip: sortedKey is called without the guard and builds the
\* key from the configured columns alone.
OutputKeyNoPassthrough(tcols, key) == sortedKeyNoRest(tcols, key)

\* The head of Process: key := b.Key(); the first configured label that is
\* a key column sends the key through sortedKey.
OutputKey(tcols, key) ==
    IF \E i \in DOMAIN tcols : HasCol(key, tcols[i])
    THEN sortedKey(tcols, key)
    ELSE [panic |-> FALSE, key |-> key]

\* ------------------------------------------- blocks, builders, the cache
\* A block: its partition key, its columns in order, its rows (one value
\* per column).  A builder: the columns and rows added so far.
EmptyBuilder == [cols |-> <<>>, rows |-> <<>>]

\* BlockBuilder.NCols()
NCols(builder) == Len(builder.cols)

\* The cache maps each key it holds to that key's builder.
EmptyCache == [k \in {} |-> EmptyBuilder]

\* BlockBuilderCache.BlockBuilder(key): the builder of the key, made now
\* (created) unless the cache holds one already.
BlockBuilder(c, key) ==
    IF key \in DOMAIN c
    THEN [cache |-> c, created |-> FALSE]
    ELSE [cache |-> [k \in DOMAIN c \cup {key} |->
                        IF k = key THEN EmptyBuilder ELSE c[k]],
          created |-> TRUE]

\* execute.AddBlockCols(b, builder): every column of the block, in order.
AddBlockCols(b, builder) == [builder EXCEPT !.cols = builder.cols \o b.cols]

\* One row through the column map: source column j lands in destination
\* column colMap[j]; a destination no source maps to stays zero.
MapRow(row, colMap, n) ==
    [dst \in 1..n |->
        IF \E j \in DOMAIN colMap : j <= Len(row) /\ colMap[j] = dst - 1
        THEN row[CHOOSE j \in DOMAIN colMap : j <= Len(row) /\ colMap[j] = dst - 1]
        ELSE ZeroVal]

\* execute.AppendBlock(b, builder, colMap): every row of the block.
AppendBlock(b, builder, colMap) ==
    [builder EXCEPT !.rows =
        builder.rows \o [i \in 1..Len(b.rows) |-> MapRow(b.rows[i], colMap, NCols(builder))]]

\* The builder columns the sort compares, in configured order (a label the
\* builder has no column for is not compared).
SortIdxs(builder, scols) ==
    LET present == SelectSeq(scols, LAMBDA l : ColIdx(l, builder.cols) >= 0)
    IN  [i \in 1..Len(present) |-> ColIdx(present[i], builder.cols) + 1]

\* r1 sorts strictly before r2: the first compared column on which they
\* differ decides, upwards, or downwards with desc.
RowLess(r1, r2, idxs, desc) ==
    \E i \in DOMAIN idxs :
        /\ \A h \in 1..(i - 1) : r1[idxs[h]] = r2[idxs[h]]
        /\ IF desc THEN r1[idxs[i]] > r2[idxs[i]] ELSE r1[idxs[i]] < r2[idxs[i]]

\* The row goes before the first row that sorts strictly after it.
SortInsert(sorted, row, idxs, desc) ==
    LET after == {i \in DOMAIN sorted : RowLess(row, sorted[i], idxs, desc)}
        at == IF after = {} THEN Len(sorted) + 1
              ELSE CHOOSE i \in after : \A h \in after : i <= h
    IN  SubSeq(sorted, 1, at - 1) \o <<row>> \o SubSeq(sorted, at, Len(sorted))

RECURSIVE SortRows(_, _, _, _)
SortRows(rows, n, idxs, desc) ==
    IF n = 0 THEN <<>>
    ELSE SortInsert(SortRows(rows, n - 1, idxs, desc), rows[n], idxs, desc)

\* BlockBuilder.Sort(cols, desc): a stable sort of the rows in place.
Sort(builder, scols, desc) ==
    [builder EXCEPT !.rows =
        SortRows(builder.rows, Len(builder.rows), SortIdxs(builder, scols), desc)]

\* -------------------------------------------------------------- Process
\* t.colMap is a Go slice: arr is its backing array (Len(arr) is cap), len
\* its length.  A nil slice has no array.
NilSlice == [arr |-> <<>>, len |-> 0]
SliceOf(sl) == SubSeq(sl.arr, 1, sl.len)

\* A plausible slip: the length of the scratch is compared, not its
\* capacity.
ProcessColMapByLen(tcolMap, ncols) ==
    IF tcolMap.len < ncols
    THEN [arr |-> [j \in 1..ncols |-> j - 1], len |-> ncols]
    ELSE [tcolMap EXCEPT !.len = ncols]

\* if cap(t.colMap) < ncols { make; identity } else { t.colMap[:ncols] }
ProcessColMap(tcolMap, ncols) ==
    IF Len(tcolMap.arr) < ncols
    THEN [arr |-> [j \in 1..ncols |-> j - 1], len |-> ncols]
    ELSE [tcolMap EXCEPT !.len = ncols]

\* A plausible slip: the builder is sorted before the rows are appended.
ProcessFillSortFirst(tcols, tdesc, tcolMap, builder, b) ==
    LET b1 == AddBlockCols(b, builder)
        cm == ProcessColMap(tcolMap, NCols(b1))
        b2 == Sort(b1, tcols, tdesc)
        b3 == AppendBlock(b, b2, SliceOf(cm))
    IN  [colMap |-> cm, builder |-> b3,
         steps |-> <<[op |-> "AddBlockCols", builder |-> b1],
                     [op |-> "Sort", builder |-> b2],
                     [op |-> "AppendBlock", builder |-> b3]>>]

\* The body of Process once the builder is there: columns, column map,
\* rows, sort; steps lists the calls made on the builder, each with the
\* builder as the call left it.
ProcessFill(tcols, tdesc, tcolMap, builder, b) ==
    LET b1 == AddBlockCols(b, builder)
        cm == ProcessColMap(tcolMap, NCols(b1))
        b2 == AppendBlock(b, b1, SliceOf(cm))
        b3 == Sort(b2, tcols, tdesc)
    IN  [colMap |-> cm, builder |-> b3,
         steps |-> <<[op |-> "AddBlockCols", builder |-> b1],
                     [op |-> "AppendBlock", builder |-> b2],
                     [op |-> "Sort", builder |-> b3]>>]

\* A plausible slip: created is not looked at.
ProcessCallIgnoreCreated(tcols, tdesc, tcolMap, tcache, b) ==
    LET ok == OutputKey(tcols, b.key)
        bb == BlockBuilder(tcache, ok.key)
        f == ProcessFill(tcols, tdesc, tcolMap, bb.cache[ok.key], b)
    IN  IF ok.panic
        THEN [err |-> "panic", colMap |-> tcolMap, cache |-> tcache, req |-> <<>>,
              steps |-> <<>>]
        ELSE [err |-> "nil", colMap |-> f.colMap,
              cache |-> [bb.cache EXCEPT ![ok.key] = f.builder], req |-> <<ok.key>>,
              steps |-> f.steps]

\* A plausible slip: created is looked at after the builder was filled.
ProcessCallCheckLate(tcols, tdesc, tcolMap, tcache, b) ==
    LET ok == OutputKey(tcols, b.key)
        bb == BlockBuilder(tcache, ok.key)
        f == ProcessFill(tcols, tdesc, tcolMap, bb.cache[ok.key], b)
    IN  IF ok.panic
        THEN [err |-> "panic", colMap |-> tcolMap, cache |-> tcache, req |-> <<>>,
              steps |-> <<>>]
        ELSE [err |-> IF bb.created THEN "nil" ELSE "duplicate", colMap |-> f.colMap,
              cache |-> [bb.cache EXCEPT ![ok.key] = f.builder], req |-> <<ok.key>>,
              steps |-> f.steps]

\* Process on a node with parameters tcols, tdesc, scratch tcolMap and
\* cache tcache: the error returned ("nil" for none, "panic" when sortedKey
\* ran out of range), the scratch and the cache after it, and the keys it
\* requested builders for, and the calls it made on the builder it got.
ProcessCall(tcols, tdesc, tcolMap, tcache, b) ==
    LET ok == OutputKey(tcols, b.key)
        bb == BlockBuilder(tcache, ok.key)
        f == ProcessFill(tcols, tdesc, tcolMap, bb.cache[ok.key], b)
    IN  IF ok.panic
        THEN [err |-> "panic", colMap |-> tcolMap, cache |-> tcache, req |-> <<>>,
              steps |-> <<>>]
        ELSE IF ~bb.created
        THEN [err |-> "duplicate", colMap |-> tcolMap, cache |-> bb.cache,
              req |-> <<ok.key>>, steps |-> <<>>]
        ELSE [err |-> "nil", colMap |-> f.colMap,
              cache |-> [bb.cache EXCEPT ![ok.key] = f.builder], req |-> <<ok.key>>,
              steps |-> f.steps]

\* ----------------------------------------------------- createSortOpSpec
\* execute.DefaultValueColLabel
DefaultValueColLabel == "_value"

\* The arguments of a sort call: whether a parent can be attached, and for
\* cols and desc whether the argument is there, of what type, and its value.
\* args.GetArray("cols", semantic.String): (array, ok, err)
GetArrayCols(args) ==
    IF ~args.cols.present THEN [ok |-> FALSE, err |-> "nil"]
    ELSE IF args.cols.type # "array<string>" THEN [ok |-> FALSE, err |-> "type error"]
    ELSE [ok |-> TRUE, err |-> "nil"]

\* interpreter.ToStringArray(array): (strings, err)
ToStringArray(a) ==
    IF a.type # "array<string>" THEN [v |-> <<>>, err |-> "type error"]
    ELSE [v |-> a.v, err |-> "nil"]

\* args.GetBool("desc"): (desc, ok, err)
GetBoolDesc(args) ==
    IF ~args.desc.present THEN [ok |-> FALSE, err |-> "nil"]
    ELSE IF args.desc.type # "bool" THEN [ok |-> FALSE, err |-> "type error"]
    ELSE [ok |-> TRUE, err |-> "nil"]

\* A plausible slip: without a cols argument the list is left empty.
createSortOpSpecNoDefault(args) ==
    LET array == GetArrayCols(args)
        bool == GetBoolDesc(args)
        strs == ToStringArray(args.cols)
    IN  IF args.parent # "nil" THEN [spec |-> <<>>, err |-> args.parent]
        ELSE IF array.err # "nil" THEN [spec |-> <<>>, err |-> array.err]
        ELSE IF array.ok /\ strs.err # "nil" THEN [spec |-> <<>>, err |-> strs.err]
        ELSE IF bool.err # "nil" THEN [spec |-> <<>>, err |-> bool.err]
        ELSE [spec |-> <<[Cols |-> IF array.ok THEN strs.v ELSE <<>>,
                          Desc |-> IF bool.ok THEN args.desc.v ELSE FALSE]>>,
              err |-> "nil"]

\* createSortOpSpec(args, a): (spec, err); spec is <<>> for nil, else the
\* one SortOpSpec.  new(SortOpSpec) leaves Desc false.
createSortOpSpec(args) ==
    LET array == GetArrayCols(args)
        bool == GetBoolDesc(args)
        strs == ToStringArray(args.cols)
    IN  IF args.parent # "nil" THEN [spec |-> <<>>, err |-> args.parent]
        ELSE IF array.err # "nil" THEN [spec |-> <<>>, err |-> array.err]
        ELSE IF array.ok /\ strs.err # "nil" THEN [spec |-> <<>>, err |-> strs.err]
        ELSE IF bool.err # "nil" THEN [spec |-> <<>>, err |-> bool.err]
        ELSE [spec |-> <<[Cols |-> IF array.ok THEN strs.v
                                   ELSE <<DefaultValueColLabel>>,
                          Desc |-> IF bool.ok THEN args.desc.v ELSE FALSE]>>,
              err |-> "nil"]

\* ------------------------------------------------------------ variables
VARIABLES
    arg,      \* the input of the function under check
    res,      \* what it returned, NoResult before the call
    cols,     \* sortTransformation.cols
    desc,     \* sortTransformation.desc
    colMap,   \* sortTransformation.colMap
    cache,    \* sortTransformation.cache, shared with the Dataset
    d,        \* sortTransformation.d: the calls the Dataset has received
    last,     \* the last call on the node and what it returned
    plog,     \* the Process calls so far: block, its key, the keys requested,
              \* the calls made on the builder, the error
    finished, \* the dataset ids Finish has been called with
    ncalls,   \* the calls on the node so far
    heap,     \* the backing arrays of the column lists, by array id
    objs,     \* the specifications and nodes built so far; objs[1] is the
              \* SortOpSpec
    mut       \* the writes into column lists so far, and whose list was written

nodeVars == <<cols, desc, colMap, cache, d, last, plog, finished, ncalls>>
fnVars == <<arg, res>>
planVars == <<heap, objs, mut>>
vars == <<arg, res, cols, desc, colMap, cache, d, last, plog, finished, ncalls,
          heap, objs, mut>>

NoResult == [op |-> "none"]
NoCall == [op |-> "none", late |-> FALSE, err |-> "nil"]

\* The node as NewSortTransformation leaves it.
NodeNew(c, ds) ==
    /\ cols = c
    /\ desc = ds
    /\ colMap = NilSlice
    /\ cache = EmptyCache
    /\ d = <<>>
    /\ last = NoCall
    /\ plog = <<>>
    /\ finished = {}
    /\ ncalls = 0

FnIdle == arg = "none" /\ res = NoResult
PlanIdle == heap = <<>> /\ objs = <<>> /\ mut = [n |-> 0, obj |-> 0]

\* ------------------------------------------- the key functions, applied
InitKey ==
    /\ arg \in [tcols : Configs, key : Keys]
    /\ res = NoResult
    /\ NodeNew(<<>>, FALSE)
    /\ PlanIdle

CallOutputKey ==
    /\ res.op = "none"
    /\ res' = [op |-> "OutputKey", v |-> OutputKey(arg.tcols, arg.key)]
    /\ UNCHANGED <<arg, nodeVars, planVars>>

CallSortedKey ==
    /\ res.op = "none"
    /\ res' = [op |-> "sortedKey", v |-> sortedKey(arg.tcols, arg.key)]
    /\ UNCHANGED <<arg, nodeVars, planVars>>

NextKey == CallOutputKey \/ CallSortedKey

SpecKey == InitKey /\ [][NextKey]_vars

\* Some configured sort column is a column of the key.
SharesCol(tcols, key) == \E i \in DOMAIN tcols : \E h \in DOMAIN key.cols : tcols[i] = key.cols[h]

\* The (column, value) pairs of a key.
Pairs(key) == {<<key.cols[i], key.vs[i]>> : i \in DOMAIN key.cols}

\* Where the claim puts a key column: configured columns by their place in
\* the configured list, the others after them by their place in the key.
Place(tcols, key, c) ==
    IF \E i \in DOMAIN tcols : tcols[i] = c
    THEN CHOOSE i \in DOMAIN tcols : tcols[i] = c
    ELSE Len(tcols) + (CHOOSE h \in DOMAIN key.cols : key.cols[h] = c)

OutputKeyCalled == res.op = "OutputKey"

\* C2: with pairwise distinct configured labels and a key that shares a
\* column with them, the key Process requests the builder with lists the
\* configured key columns in configured order, then the other key columns
\* in their original order, every column with its original value, and is
\* a permutation of the input key.
C2_KeyReorder ==
    (OutputKeyCalled /\ IsInjective(arg.tcols) /\ SharesCol(arg.tcols, arg.key)) =>
        /\ ~res.v.panic
        /\ Len(res.v.key.cols) = Len(arg.key.cols)
        /\ Len(res.v.key.vs) = Len(arg.key.cols)
        /\ IsInjective(res.v.key.cols)
        /\ Pairs(res.v.key) = Pairs(arg.key)
        /\ \A i, j \in DOMAIN res.v.key.cols :
              i < j => Place(arg.tcols, arg.key, res.v.key.cols[i])
                        < Place(arg.tcols, arg.key, res.v.key.cols[j])

\* A key of three columns, its third and its first configured in that
\* order: they lead, the second column follows, values with their columns.
C2_Witness ==
    /\ OutputKeyCalled
    /\ Len(arg.key.cols) = 3 /\ Len(arg.tcols) = 2
    /\ arg.tcols[1] = arg.key.cols[3] /\ arg.tcols[2] = arg.key.cols[1]
    /\ arg.key.vs[1] # arg.key.vs[3]
    /\ res.v.key.cols = <<arg.key.cols[3], arg.key.cols[1], arg.key.cols[2]>>
    /\ res.v.key.vs = <<arg.key.vs[3], arg.key.vs[1], arg.key.vs[2]>>

\* C3: when no configured sort column is a key column, Process requests the
\* builder with the input key itself: same columns, order and values.
C3_KeyPassthrough ==
    (OutputKeyCalled /\ ~SharesCol(arg.tcols, arg.key)) =>
        /\ ~res.v.panic
        /\ res.v.key.cols = arg.key.cols
        /\ res.v.key.vs = arg.key.vs

C3_Witness ==
    /\ OutputKeyCalled
    /\ ~SharesCol(arg.tcols, arg.key)
    /\ Len(arg.tcols) >= 1
    /\ Len(arg.key.cols) = 2
    /\ res.v.key = arg.key

\* C11 as claimed: whatever the configured list, repeated labels included,
\* sortedKey writes exactly as many entries as the key has columns, never
\* past the end, and returns a permutation of the key's (column, value)
\* pairs; the key Process computes is never lost to the shape of the list.
C11_SortedKeyTotal ==
    res.op \in {"sortedKey", "OutputKey"} =>
        /\ ~res.v.panic
        /\ Len(res.v.key.cols) = Len(arg.key.cols)
        /\ IsInjective(res.v.key.cols)
        /\ Pairs(res.v.key) = Pairs(arg.key)

\* ------------------------------------------------------- the node's calls
MaxCalls == 2       \* calls delivered to one node

\* The node has one upstream; the engine names it by a dataset id, and a
\* second id stands for any other id a caller may pass.
DatasetIDs == {1, 2}
Times == {1, 2}
\* What a Dataset call returns, and the error a completion may carry.
DatasetErrs == {"nil", "downstream error"}
FinishErrs == {"nil", "upstream error"}

\* The configurations of the node: a key column, a data column before a
\* key column, a data column alone, a repeated key column.
NodeConfigs ==
    {[cols |-> <<"b">>, desc |-> FALSE],
     [cols |-> <<"c", "b">>, desc |-> TRUE],
     [cols |-> <<"c">>, desc |-> FALSE],
     [cols |-> <<"b", "b">>, desc |-> TRUE]}

\* The keys of the blocks the node is fed: keys the reordering leaves alone,
\* keys it changes, and two keys it maps to one.
NodeKeys ==
    {[cols |-> <<"a">>, vs |-> <<1>>],
     [cols |-> <<"a", "b">>, vs |-> <<1, 1>>],
     [cols |-> <<"b", "a">>, vs |-> <<1, 1>>],
     [cols |-> <<"a", "b">>, vs |-> <<1, 2>>]}

\* A block of the key: the key's columns, then the data column c; every
\* row carries the key's values.
BlockOf(key, data) ==
    [key |-> key,
     cols |-> key.cols \o <<"c">>,
     rows |-> [i \in 1..Len(data) |-> key.vs \o <<data[i]>>]]

NodeBlocks == {BlockOf(k, data) : k \in NodeKeys, data \in {<<2, 1>>, <<1>>}}

Live == ncalls < MaxCalls /\ last.err # "panic"

\* A plausible slip: the retraction is keyed like the builder, by the
\* reordered key.
RetractBlockReordered(id, key, r) ==
    /\ Live
    /\ d' = Append(d, [op |-> "RetractBlock", arg |-> OutputKey(cols, key).key, res |-> r])
    /\ last' = [op |-> "RetractBlock", late |-> id \in finished, arg |-> key, err |-> r]
    /\ ncalls' = ncalls + 1
    /\ UNCHANGED <<cols, desc, colMap, cache, plog, finished, fnVars, planVars>>

\* RetractBlock(id, key): return t.d.RetractBlock(key); r is what the
\* Dataset returns.
RetractBlock(id, key, r) ==
    /\ Live
    /\ d' = Append(d, [op |-> "RetractBlock", arg |-> key, res |-> r])
    /\ last' = [op |-> "RetractBlock", late |-> id \in finished, arg |-> key, err |-> r]
    /\ ncalls' = ncalls + 1
    /\ UNCHANGED <<cols, desc, colMap, cache, plog, finished, fnVars, planVars>>

\* Process(id, b), once the call is delivered
ProcessBlock(id, b) ==
    /\ LET r == ProcessCall(cols, desc, colMap, cache, b)
       IN  /\ colMap' = r.colMap
           /\ cache' = r.cache
           /\ last' = [op |-> "Process", late |-> id \in finished, arg |-> b, err |-> r.err]
           /\ plog' = Append(plog, [key |-> b.key, req |-> r.req, err |-> r.err,
                                    b |-> b, steps |-> r.steps])
    /\ ncalls' = ncalls + 1
    /\ UNCHANGED <<cols, desc, d, finished, fnVars, planVars>>

\* Process(id, b)
Process(id, b) == Live /\ ProcessBlock(id, b)

\* UpdateWatermark(id, mark): return t.d.UpdateWatermark(mark)
UpdateWatermark(id, mark, r) ==
    /\ Live
    /\ d' = Append(d, [op |-> "UpdateWatermark", arg |-> mark, res |-> r])
    /\ last' = [op |-> "UpdateWatermark", late |-> id \in finished, arg |-> mark, err |-> r]
    /\ ncalls' = ncalls + 1
    /\ UNCHANGED <<cols, desc, colMap, cache, plog, finished, fnVars, planVars>>

\* UpdateProcessingTime(id, pt): return t.d.UpdateProcessingTime(pt)
UpdateProcessingTime(id, pt, r) ==
    /\ Live
    /\ d' = Append(d, [op |-> "UpdateProcessingTime", arg |-> pt, res |-> r])
    /\ last' = [op |-> "UpdateProcessingTime", late |-> id \in finished, arg |-> pt, err |-> r]
    /\ ncalls' = ncalls + 1
    /\ UNCHANGED <<cols, desc, colMap, cache, plog, finished, fnVars, planVars>>

\* Finish(id, err): t.d.Finish(err); nothing is returned.
Finish(id, err) ==
    /\ Live
    /\ d' = Append(d, [op |-> "Finish", arg |-> err, res |-> "nil"])
    /\ last' = [op |-> "Finish", late |-> id \in finished, arg |-> err, err |-> "nil"]
    /\ finished' = finished \cup {id}
    /\ ncalls' = ncalls + 1
    /\ UNCHANGED <<cols, desc, colMap, cache, plog, fnVars, planVars>>

Init ==
    /\ \E c \in NodeConfigs : NodeNew(c.cols, c.desc)
    /\ FnIdle
    /\ PlanIdle

Next ==
    \/ \E id \in DatasetIDs, b \in NodeBlocks : Process(id, b)
    \/ \E id \in DatasetIDs, k \in NodeKeys, r \in DatasetErrs : RetractBlock(id, k, r)
    \/ \E id \in DatasetIDs, t \in Times, r \in DatasetErrs : UpdateWatermark(id, t, r)
    \/ \E id \in DatasetIDs, t \in Times, r \in DatasetErrs : UpdateProcessingTime(id, t, r)
    \/ \E id \in DatasetIDs, e \in FinishErrs : Finish(id, e)

Spec == Init /\ [][Next]_vars

\* A call was delivered in this step.
Called == ncalls' = ncalls + 1

\* C1: a Process call fails with the duplicate-key error exactly when an
\* earlier Process call of the stream requested the same output key; the
\* first call for an output key does not fail.
C1_DuplicateKey ==
    \A j \in DOMAIN plog :
        plog[j].req # <<>> =>
            LET seen == \E i \in 1..(j - 1) : plog[i].req = plog[j].req
            IN  /\ seen => plog[j].err = "duplicate"
                /\ ~seen => plog[j].err = "nil"

\* Two blocks with different keys that the reordering maps to one output
\* key: the first went through, the second was refused.
C1_Witness ==
    /\ Len(plog) = 2
    /\ plog[1].key # plog[2].key
    /\ plog[1].req = plog[2].req
    /\ plog[1].req # <<plog[1].key>>
    /\ plog[1].err = "nil"
    /\ plog[2].err = "duplicate"

Lifecycle == {"RetractBlock", "UpdateWatermark", "UpdateProcessingTime", "Finish"}

\* C4: a RetractBlock, UpdateWatermark, UpdateProcessingTime or Finish call
\* makes exactly one call on the Dataset, of the same operation with the
\* call's own argument (the key as given, the error as given), returns what
\* the Dataset returned, and leaves the cache and the sort parameters alone.
C4_LifecycleForwarding ==
    [][(Called /\ last'.op \in Lifecycle) =>
          /\ Len(d') = Len(d) + 1
          /\ SubSeq(d', 1, Len(d)) = d
          /\ d'[Len(d')].op = last'.op
          /\ d'[Len(d')].arg = last'.arg
          /\ last'.err = d'[Len(d')].res
          /\ cache' = cache
          /\ cols' = cols /\ desc' = desc /\ colMap' = colMap]_vars

\* A retraction of a key the node would reorder, after a block was
\* processed, with the Dataset's error handed back.
C4_Witness ==
    /\ last.op = "RetractBlock"
    /\ OutputKey(cols, last.arg).key # last.arg
    /\ last.err = "downstream error"
    /\ DOMAIN cache # {}
    /\ Len(d) = 1 /\ d[1].arg = last.arg

\* C5 as claimed: a call that follows Finish for its dataset id acquires no
\* builder and makes no call on the Dataset.
C5_NoWorkAfterFinish ==
    [][(Called /\ last'.late) => (d' = d /\ cache' = cache)]_vars

\* C9: a Process call that returns an error leaves the cache (its keys and
\* every builder's contents) as it was and makes no call on the Dataset.
C9_FailedProcessLeavesNothing ==
    [][(Called /\ last'.op = "Process" /\ last'.err \notin {"nil", "panic"}) =>
          /\ cache' = cache
          /\ d' = d
          /\ plog'[Len(plog')].err = last'.err]_vars

\* A refused block whose rows differ in number from those of the builder
\* its output key already has.
C9_Witness ==
    /\ last.op = "Process" /\ last.err = "duplicate"
    /\ \E k \in DOMAIN cache :
          /\ plog[Len(plog)].req = <<k>>
          /\ Len(cache[k].rows) # Len(last.arg.rows)
          /\ Len(cache[k].rows) > 0

\* C10 as claimed: a retraction with the key of a block Process has
\* materialised hands the Dataset the key the builder is stored under.
C10_RetractAddressesBuilder ==
    \A i \in DOMAIN d :
        d[i].op = "RetractBlock" =>
            \A j \in DOMAIN plog :
                (plog[j].err = "nil" /\ plog[j].key = d[i].arg) =>
                    <<d[i].arg>> = plog[j].req

\* The calls a Process call made on its builder, by name and in order.
StepOps(p) == [j \in DOMAIN p.steps |-> p.steps[j].op]

\* C12 as claimed: every Process call requests exactly one builder, the one
\* of the output key; a call that fills the builder adds all columns of the
\* block, in the block's order, before any row, appends every row, and
\* sorts only after the rows are in; the block it was handed is the block
\* it read throughout.
C12_ProcessDiscipline ==
    \A i \in DOMAIN plog :
        LET p == plog[i]
        IN  /\ Len(p.req) = 1
            /\ p.req = <<OutputKey(cols, p.key).key>>
            /\ p.b.key = p.key
            /\ p.err = "nil" =>
                /\ StepOps(p) = <<"AddBlockCols", "AppendBlock", "Sort">>
                /\ p.steps[1].builder = [cols |-> p.b.cols, rows |-> <<>>]
                /\ p.steps[2].builder.cols = p.b.cols
                /\ p.steps[2].builder.rows = p.b.rows
                /\ p.steps[3].builder = Sort(p.steps[2].builder, cols, desc)
                /\ cache[p.req[1]] = p.steps[3].builder

\* ------------------------------------------------- one block, sorted
MaxRows == 3        \* most rows in a block that is sorted

\* Columns, direction: one column, two columns either way round, a
\* repeated column, none.
SortConfigs ==
    {[cols |-> <<"a">>, desc |-> FALSE],
     [cols |-> <<"a">>, desc |-> TRUE],
     [cols |-> <<"b", "a">>, desc |-> FALSE],
     [cols |-> <<"a", "b">>, desc |-> TRUE],
     [cols |-> <<"a", "a">>, desc |-> TRUE],
     [cols |-> <<>>, desc |-> FALSE]}

\* Blocks of the empty key with columns a and b and up to MaxRows rows.
SortBlocks ==
    {[key |-> [cols |-> <<>>, vs |-> <<>>], cols |-> <<"a", "b">>, rows |-> r] :
        r \in SeqsUpTo([1..2 -> Values], MaxRows)}

\* The scratch as earlier blocks leave it: never used, or grown for a block
\* of three columns and cut back for a block of one.
SortColMaps ==
    {NilSlice,
     ProcessColMap(ProcessColMap(NilSlice, 3), 1)}

InitSort ==
    /\ \E c \in SortConfigs : cols = c.cols /\ desc = c.desc
    /\ colMap \in SortColMaps
    /\ cache = EmptyCache
    /\ d = <<>>
    /\ last = NoCall
    /\ plog = <<>>
    /\ finished = {}
    /\ ncalls = 0
    /\ FnIdle
    /\ PlanIdle

ProcessOne(id, b) == ncalls = 0 /\ Process(id, b)

NextSort == \E b \in SortBlocks : ProcessOne(1, b)

SpecSort == InitSort /\ [][NextSort]_vars

\* The values of a row in the configured columns, in configured order.
SortKeyOf(row, bcols, scols) ==
    [i \in DOMAIN scols |-> row[CHOOSE h \in DOMAIN bcols : bcols[h] = scols[i]]]

\* Row r1 has to come before row r2: at the first configured column where
\* they differ r1 is the smaller (the larger when descending).
ComesBefore(r1, r2, bcols, scols, ds) ==
    LET k1 == SortKeyOf(r1, bcols, scols)
        k2 == SortKeyOf(r2, bcols, scols)
        diff == {i \in DOMAIN scols : k1[i] # k2[i]}
        first == CHOOSE i \in diff : \A h \in diff : i <= h
    IN  diff # {} /\ (IF ds THEN k1[first] > k2[first] ELSE k1[first] < k2[first])

\* The place of input row i in the output: after the rows that have to
\* come before it and after the earlier rows that tie with it.
StablePlace(rows, i, bcols, scols, ds) ==
    1 + Cardinality({h \in DOMAIN rows :
            \/ ComesBefore(rows[h], rows[i], bcols, scols, ds)
            \/ /\ h < i
               /\ ~ComesBefore(rows[i], rows[h], bcols, scols, ds)})

ProcessedOk == last.op = "Process" /\ last.err = "nil"
OutBuilder == cache[plog[Len(plog)].req[1]]

\* C6: after a successful Process the builder holds the block's columns
\* and exactly the block's rows, ordered by the configured columns in
\* configured order under the one direction desc, rows that tie on all of
\* them in their original order, ascending and descending alike.
C6_StableSort ==
    ProcessedOk =>
        /\ OutBuilder.cols = last.arg.cols
        /\ Len(OutBuilder.rows) = Len(last.arg.rows)
        /\ \A i \in DOMAIN last.arg.rows :
              OutBuilder.rows[StablePlace(last.arg.rows, i, last.arg.cols, cols, desc)]
                  = last.arg.rows[i]

\* The claim's example shape, descending: the largest a first in the
\* input, then two rows that tie on a and differ on b; the order stays.
C6_Witness ==
    /\ ProcessedOk
    /\ cols = <<"a">> /\ desc
    /\ colMap.len < Len(colMap.arr)
    /\ Len(last.arg.rows) = 3
    /\ last.arg.rows[1][1] > last.arg.rows[2][1]
    /\ last.arg.rows[2][1] = last.arg.rows[3][1]
    /\ last.arg.rows[2][2] > last.arg.rows[3][2]
    /\ OutBuilder.rows = last.arg.rows

\* The same rows ascending: the two tied rows come first, in their
\* original order.
C6_WitnessAsc ==
    /\ ProcessedOk
    /\ cols = <<"a">> /\ ~desc
    /\ Len(last.arg.rows) = 3
    /\ last.arg.rows[1][1] > last.arg.rows[2][1]
    /\ last.arg.rows[2][1] = last.arg.rows[3][1]
    /\ last.arg.rows[2][2] > last.arg.rows[3][2]
    /\ OutBuilder.rows = <<last.arg.rows[2], last.arg.rows[3], last.arg.rows[1]>>

\* ------------------------------------- blocks of changing column counts
MaxColMapCalls == 3 \* Process calls on one node

\* Blocks of one column (no key column), of two and of three.
ColMapBlocks == NodeBlocks \cup {BlockOf([cols |-> <<>>, vs |-> <<>>], <<1>>)}

InitColMap ==
    /\ \E c \in NodeConfigs : NodeNew(c.cols, c.desc)
    /\ FnIdle
    /\ PlanIdle

ProcessNext(id, b) ==
    /\ ncalls < MaxColMapCalls
    /\ last.err # "panic"
    /\ ProcessBlock(id, b)

NextColMap == \E id \in DatasetIDs, b \in ColMapBlocks : ProcessNext(id, b)

SpecColMap == InitColMap /\ [][NextColMap]_vars

\* C18: whenever Process fills a builder, the column map handed to the row
\* copy is as long as the builder has columns and maps every column to
\* itself, whatever the column counts of the blocks before; it is the
\* scratch the node had, resliced, when that has room for the columns, and
\* a new array of exactly that many when it has not.
C18_ColMapIdentity ==
    [][(Called /\ last'.err = "nil") =>
        LET ncols == NCols(plog'[Len(plog')].steps[1].builder)
        IN  /\ SliceOf(colMap') = [j \in 1..ncols |-> j - 1]
            /\ plog'[Len(plog')].steps[2].builder.rows = last'.arg.rows
            /\ IF ncols <= Len(colMap.arr)
               THEN colMap'.arr = colMap.arr
               ELSE Len(colMap'.arr) = ncols]_vars

\* Three blocks went through, of three columns, then of one, then of two:
\* the scratch still has room for three and is two long.
C18_Witness ==
    /\ Len(plog) = 3
    /\ \A i \in DOMAIN plog : plog[i].err = "nil"
    /\ [i \in DOMAIN plog |-> Len(plog[i].b.cols)] = <<3, 1, 2>>
    /\ Len(colMap.arr) = 3
    /\ SliceOf(colMap) = <<0, 1>>

\* ------------------------------------------- specifications at plan time
MaxObjs == 3        \* specifications built, the SortOpSpec included
MaxMuts == 2        \* writes into column lists

\* A specification or a node: its kind, the array its Cols slice views (the
\* slice is the whole array), Desc, and how it was made from which other
\* one; a node also has its Dataset and its cache.
ColsOf(i) == heap[objs[i].Cols]

InitPlan ==
    /\ \E c \in Configs, ds \in BOOLEAN :
          /\ heap = <<c>>
          /\ objs = <<[kind |-> "op", Cols |-> 1, Desc |-> ds,
                       how |-> "createSortOpSpec", from |-> 0]>>
    /\ mut = [n |-> 0, obj |-> 0]
    /\ NodeNew(<<>>, FALSE)
    /\ FnIdle

\* A specification of another operation, or of another procedure: the
\* value a type assertion to the sort's specification fails on.
OtherSpec == 0

\* The dynamic type of the specification i.
KindOf(i) == IF i = OtherSpec THEN "other" ELSE objs[i].kind

\* The dataset id and the execute.AccumulationMode a node is constructed
\* with; the mode is opaque to the sort.
DatasetArgs ==
    {[id |-> 1, mode |-> "DiscardingMode"], [id |-> 2, mode |-> "AccumulatingMode"]}

\* newSortProcedure(qs, pa) on the operation specification i:
\* spec, ok := qs.(*SortOpSpec); the error for another kind, else
\* &SortProcedureSpec{Cols: spec.Cols, Desc: spec.Desc}
newSortProcedure(i) ==
    /\ KindOf(i) \in {"other", "op"}
    /\ i # OtherSpec => Len(objs) < MaxObjs
    /\ IF i = OtherSpec
       THEN /\ objs' = objs
            /\ res' = [op |-> "newSortProcedure", of |-> i, made |-> <<>>,
                       d |-> <<>>, err |-> "invalid spec type"]
       ELSE /\ objs' = Append(objs, [kind |-> "proc", Cols |-> objs[i].Cols,
                                     Desc |-> objs[i].Desc,
                                     how |-> "newSortProcedure", from |-> i])
            /\ res' = [op |-> "newSortProcedure", of |-> i, made |-> <<Len(objs) + 1>>,
                       d |-> <<>>, err |-> "nil"]
    /\ UNCHANGED <<heap, mut, nodeVars, arg>>

\* execute.NewBlockBuilderCache(a.Allocator()): a cache no node has yet,
\* named by its number.
NewBlockBuilderCache == 1 + Cardinality({j \in DOMAIN objs : objs[j].kind = "node"})

\* execute.NewDataset(id, mode, cache)
NewDataset(id, mode, c) == [id |-> id, mode |-> mode, cache |-> c]

\* NewSortTransformation(d, cache, spec) with spec the SortProcedureSpec
\* objs[i]: &sortTransformation{d: d, cache: cache, cols: spec.Cols,
\* desc: spec.Desc}
NewSortTransformation(dd, c, i) ==
    [kind |-> "node", d |-> dd, cache |-> c, Cols |-> objs[i].Cols,
     Desc |-> objs[i].Desc, how |-> "NewSortTransformation", from |-> i]

\* A plausible slip: the node is given a cache of its own, not the one the
\* Dataset wraps.
createSortTransformationOwnCache(id, mode, i) ==
    /\ KindOf(i) \in {"other", "proc"}
    /\ i # OtherSpec => Len(objs) < MaxObjs
    /\ IF i = OtherSpec
       THEN /\ objs' = objs
            /\ res' = [op |-> "createSortTransformation", of |-> i, made |-> <<>>,
                       d |-> <<>>, err |-> "invalid spec type"]
       ELSE LET c == NewBlockBuilderCache
                dd == NewDataset(id, mode, c)
            IN  /\ objs' = Append(objs, NewSortTransformation(dd, c + 1, i))
                /\ res' = [op |-> "createSortTransformation", of |-> i,
                           made |-> <<Len(objs) + 1>>, d |-> <<dd>>, err |-> "nil"]
    /\ UNCHANGED <<heap, mut, nodeVars, arg>>

\* createSortTransformation(id, mode, spec, a) on the procedure
\* specification i: s, ok := spec.(*SortProcedureSpec); the error and
\* neither node nor dataset for another kind, else a new cache, the Dataset
\* over it, the node over both, and (t, d, nil).
createSortTransformation(id, mode, i) ==
    /\ KindOf(i) \in {"other", "proc"}
    /\ i # OtherSpec => Len(objs) < MaxObjs
    /\ IF i = OtherSpec
       THEN /\ objs' = objs
            /\ res' = [op |-> "createSortTransformation", of |-> i, made |-> <<>>,
                       d |-> <<>>, err |-> "invalid spec type"]
       ELSE LET c == NewBlockBuilderCache
                dd == NewDataset(id, mode, c)
            IN  /\ objs' = Append(objs, NewSortTransformation(dd, c, i))
                /\ res' = [op |-> "createSortTransformation", of |-> i,
                           made |-> <<Len(objs) + 1>>, d |-> <<dd>>, err |-> "nil"]
    /\ UNCHANGED <<heap, mut, nodeVars, arg>>

\* A plausible slip: the copy takes the slice, not its elements.
CopyShared(i) ==
    /\ Len(objs) < MaxObjs
    /\ objs[i].kind = "proc"
    /\ objs' = Append(objs, [kind |-> "proc", Cols |-> objs[i].Cols,
                             Desc |-> objs[i].Desc, how |-> "Copy", from |-> i])
    /\ UNCHANGED <<heap, mut, nodeVars, fnVars>>

\* (s *SortProcedureSpec) Copy() on objs[i]: a new array of len(s.Cols),
\* the elements copied into it, Desc copied.
Copy(i) ==
    /\ Len(objs) < MaxObjs
    /\ objs[i].kind = "proc"
    /\ heap' = Append(heap, [h \in 1..Len(ColsOf(i)) |-> ColsOf(i)[h]])
    /\ objs' = Append(objs, [kind |-> "proc", Cols |-> Len(heap) + 1,
                             Desc |-> objs[i].Desc, how |-> "Copy", from |-> i])
    /\ UNCHANGED <<mut, nodeVars, fnVars>>

\* A holder of the SortProcedureSpec objs[i] writes s.Cols[pos] = label.
SetCol(i, pos, label) ==
    /\ mut.n < MaxMuts
    /\ objs[i].kind = "proc"
    /\ pos \in DOMAIN ColsOf(i)
    /\ heap' = [heap EXCEPT ![objs[i].Cols][pos] = label]
    /\ mut' = [n |-> mut.n + 1, obj |-> i]
    /\ UNCHANGED <<objs, nodeVars, fnVars>>

NextPlan ==
    \/ \E i \in DOMAIN objs \cup {OtherSpec} : newSortProcedure(i)
    \/ \E a \in DatasetArgs, i \in DOMAIN objs \cup {OtherSpec} :
          createSortTransformation(a.id, a.mode, i)
    \/ \E i \in DOMAIN objs : Copy(i)
    \/ \E i \in DOMAIN objs, pos \in 1..MaxCols, l \in Labels : SetCol(i, pos, l)

SpecPlan == InitPlan /\ [][NextPlan]_vars

\* One of the two specifications is the Copy of the other.
CopyPair(i, j) ==
    \/ objs[i].how = "Copy" /\ objs[i].from = j
    \/ objs[j].how = "Copy" /\ objs[j].from = i

\* C7: Copy returns a specification with the same column list and the same
\* direction, and a write into the column list of the copy leaves the
\* original's list as it was, as a write into the original's leaves the
\* copy's.
C7_CopyIndependent ==
    [][/\ (Len(objs') = Len(objs) + 1 /\ objs'[Len(objs')].how = "Copy") =>
            /\ heap'[objs'[Len(objs')].Cols] = ColsOf(objs'[Len(objs')].from)
            /\ objs'[Len(objs')].Desc = objs[objs'[Len(objs')].from].Desc
            /\ \A j \in DOMAIN objs : objs'[j] = objs[j] /\ heap'[objs[j].Cols] = ColsOf(j)
       /\ (mut'.n = mut.n + 1) =>
            \A j \in DOMAIN objs :
                CopyPair(j, mut'.obj) => heap'[objs[j].Cols] = ColsOf(j)]_vars

\* A copy's list was written once and now differs from the list of the
\* specification it was copied from.
C7_Witness ==
    /\ mut.n = 1
    /\ objs[mut.obj].how = "Copy"
    /\ Len(ColsOf(mut.obj)) = 2
    /\ ColsOf(mut.obj) # ColsOf(objs[mut.obj].from)

\* C13: derivation from a specification of another kind, and construction
\* from a procedure specification of another kind, return the invalid spec
\* type error and nothing else, and build nothing; derivation from the
\* sort's specification returns a procedure specification with its columns
\* and its direction, and construction returns a node and a dataset over
\* one and the same cache, which no earlier node has.
C13_SpecKindChecked ==
    [][(res' # res) =>
        /\ res'.err = IF res'.of = OtherSpec THEN "invalid spec type" ELSE "nil"
        /\ res'.of = OtherSpec =>
            res'.made = <<>> /\ res'.d = <<>> /\ objs' = objs
        /\ (res'.of # OtherSpec /\ res'.op = "newSortProcedure") =>
            /\ objs' = Append(objs, objs'[Len(objs')])
            /\ res'.made = <<Len(objs')>> /\ res'.d = <<>>
            /\ objs'[Len(objs')].kind = "proc"
            /\ heap'[objs'[Len(objs')].Cols] = ColsOf(res'.of)
            /\ objs'[Len(objs')].Desc = objs[res'.of].Desc
        /\ (res'.of # OtherSpec /\ res'.op = "createSortTransformation") =>
            /\ objs' = Append(objs, objs'[Len(objs')])
            /\ res'.made = <<Len(objs')>>
            /\ objs'[Len(objs')].kind = "node"
            /\ res'.d = <<objs'[Len(objs')].d>>
            /\ objs'[Len(objs')].cache = objs'[Len(objs')].d.cache
            /\ \A j \in DOMAIN objs :
                  objs[j].kind = "node" => objs[j].cache # objs'[Len(objs')].cache]_vars

\* A procedure specification was derived, a node was built, and a
\* construction from a specification of another kind has just failed.
C13_Witness ==
    /\ res.op = "createSortTransformation"
    /\ res.err = "invalid spec type"
    /\ \E j \in DOMAIN objs : objs[j].kind = "proc" /\ objs[j].how = "newSortProcedure"
    /\ \E j \in DOMAIN objs : objs[j].kind = "node"

\* C14 as claimed: a write into the column list of a procedure
\* specification leaves the list of the operation specification it was
\* derived from as it was, and leaves the sort columns of every node built
\* from it as they were.
C14_DerivationCopies ==
    [][(mut'.n = mut.n + 1) =>
        \A j \in DOMAIN objs :
            /\ (objs[mut'.obj].how = "newSortProcedure" /\ objs[mut'.obj].from = j) =>
                  heap'[objs[j].Cols] = ColsOf(j)
            /\ (objs[j].kind = "node" /\ objs[j].from = mut'.obj) =>
                  heap'[objs[j].Cols] = ColsOf(j)]_vars

\* ------------------------------------------- createSortOpSpec, applied
OpArgs ==
    [parent : {"nil", "parent error"},
     cols : {[present |-> FALSE, type |-> "none", v |-> <<>>],
             [present |-> TRUE, type |-> "int", v |-> <<>>],
             [present |-> TRUE, type |-> "array<int>", v |-> <<>>]}
            \cup {[present |-> TRUE, type |-> "array<string>", v |-> c] : c \in Configs},
     desc : {[present |-> FALSE, type |-> "none", v |-> FALSE],
             [present |-> TRUE, type |-> "string", v |-> FALSE],
             [present |-> TRUE, type |-> "bool", v |-> FALSE],
             [present |-> TRUE, type |-> "bool", v |-> TRUE]}]

InitOp ==
    /\ arg \in OpArgs
    /\ res = NoResult
    /\ NodeNew(<<>>, FALSE)
    /\ PlanIdle

CallCreateSortOpSpec ==
    /\ res.op = "none"
    /\ res' = [op |-> "createSortOpSpec", v |-> createSortOpSpec(arg)]
    /\ UNCHANGED <<arg, nodeVars, planVars>>

NextOp == CallCreateSortOpSpec

SpecOp == InitOp /\ [][NextOp]_vars

\* The call cannot succeed: no parent, or an argument of the wrong type.
BadArgs ==
    \/ arg.parent # "nil"
    \/ arg.cols.present /\ arg.cols.type # "array<string>"
    \/ arg.desc.present /\ arg.desc.type # "bool"

\* C8: without a cols argument the column list is the one default value
\* column, without a desc argument desc is false, the arguments given are
\* held as given, and a parent that cannot be attached or a mistyped
\* argument gives an error and no specification.
C8_OpSpecDefaults ==
    res.op = "createSortOpSpec" =>
        IF BadArgs
        THEN res.v.spec = <<>> /\ res.v.err # "nil"
        ELSE /\ res.v.err = "nil"
             /\ Len(res.v.spec) = 1
             /\ ~arg.cols.present => res.v.spec[1].Cols = <<"_value">>
             /\ arg.cols.present => res.v.spec[1].Cols = arg.cols.v
             /\ ~arg.desc.present => res.v.spec[1].Desc = FALSE
             /\ arg.desc.present => res.v.spec[1].Desc = arg.desc.v

\* A call with neither argument: one default column, ascending.
C8_Witness ==
    /\ res.op = "createSortOpSpec"
    /\ ~arg.cols.present /\ ~arg.desc.present /\ arg.parent = "nil"
    /\ res.v = [spec |-> <<[Cols |-> <<"_value">>, Desc |-> FALSE]>>, err |-> "nil"]

\* ------------------------------------------------ the Authorized component
MaxRoles == 2       \* most roles in me.roles

VIEWER_ROLE == "viewer"
EDITOR_ROLE == "editor"
ADMIN_ROLE == "admin"
SUPERADMIN_ROLE == "superadmin"

\* The role names met: the four roles, the name getMeRole gives a user
\* without roles, and a name that is none of them.
RoleNames == {VIEWER_ROLE, EDITOR_ROLE, ADMIN_ROLE, SUPERADMIN_ROLE, "none", "member"}

\* A plausible slip: the editor case lets a viewer through.
isUserAuthorizedEditorLax(meRole, requiredRole) ==
    CASE requiredRole = VIEWER_ROLE ->
            meRole \in {VIEWER_ROLE, EDITOR_ROLE, ADMIN_ROLE, SUPERADMIN_ROLE}
      [] requiredRole = EDITOR_ROLE ->
            meRole \in {VIEWER_ROLE, EDITOR_ROLE, ADMIN_ROLE, SUPERADMIN_ROLE}
      [] requiredRole = ADMIN_ROLE -> meRole \in {ADMIN_ROLE, SUPERADMIN_ROLE}
      [] requiredRole = SUPERADMIN_ROLE -> meRole = SUPERADMIN_ROLE
      [] OTHER -> FALSE

\* isUserAuthorized(meRole, requiredRole): the switch on requiredRole, each
\* case the roles it compares meRole with.
isUserAuthorized(meRole, requiredRole) ==
    CASE requiredRole = VIEWER_ROLE ->
            meRole \in {VIEWER_ROLE, EDITOR_ROLE, ADMIN_ROLE, SUPERADMIN_ROLE}
      [] requiredRole = EDITOR_ROLE ->
            meRole \in {EDITOR_ROLE, ADMIN_ROLE, SUPERADMIN_ROLE}
      [] requiredRole = ADMIN_ROLE -> meRole \in {ADMIN_ROLE, SUPERADMIN_ROLE}
      [] requiredRole = SUPERADMIN_ROLE -> meRole = SUPERADMIN_ROLE
      [] OTHER -> FALSE

\* me: <<>> while undefined, else <<[roles |-> the list of its roles]>>, a
\* role being [name |-> its name].
Mes ==
    {<<>>} \cup
    {<<[roles |-> [i \in DOMAIN rs |-> [name |-> rs[i]]]]>> : rs \in SeqsUpTo(RoleNames, MaxRoles)}

\* getMeRole(me): _.get(_.first(_.get(me, 'roles', [])), 'name', 'none')
getMeRole(me) ==
    LET roles == IF me = <<>> THEN <<>> ELSE me[1].roles
    IN  IF roles = <<>> THEN "none" ELSE roles[1].name

\* What a component renders and what it is handed as a node: null or
\* undefined, a text, an element (which element it is, and its props), or
\* an array of elements.
Null == [kind |-> "null"]
Undefined == [kind |-> "undefined"]
Element(ref, disabled) ==
    [kind |-> "element", ref |-> ref, props |-> [disabled |-> disabled]]

\* React.isValidElement(x)
isValidElement(x) == x.kind = "element"

\* React.cloneElement(el, props): a new element, the given props over the
\* element's own.
cloneElement(el, props) ==
    [kind |-> "element", ref |-> "clone", props |-> props @@ el.props]

\* The truth value JavaScript gives a node or an object: undefined, null
\* and the empty text are false, every element and every object is true.
Truthy(x) == ~(x.kind \in {"undefined", "null"} \/ (x.kind = "text" /\ x.v = ""))

\* The props the component is rendered with.
AuthProps ==
    [children : {Element("child", FALSE),
                 [kind |-> "array",
                  items |-> <<Element("child", FALSE), Element("sibling", FALSE)>>]},
     me : Mes,
     isUsingAuth : {Undefined, [kind |-> "boolean", v |-> TRUE],
                    [kind |-> "boolean", v |-> FALSE]},
     requiredRole : RoleNames,
     replaceWith : {Undefined, [kind |-> "text", v |-> ""], Element("replacement", TRUE)},
     propsOverride : {Undefined, [kind |-> "object", props |-> [disabled |-> TRUE]],
                      [kind |-> "object", props |-> [disabled |-> FALSE]]}]

\* children when it is one element, else the first of the array
FirstChild(props) ==
    IF isValidElement(props.children) THEN props.children ELSE props.children.items[1]

\* A plausible slip: no check that isUsingAuth is a boolean yet, so that
\* undefined counts as auth not in use.
AuthorizedNoTypeCheck(props) ==
    LET firstChild == FirstChild(props)
        meRole == getMeRole(props.me)
        usingAuth == props.isUsingAuth.kind = "boolean" /\ props.isUsingAuth.v
    IN  IF ~usingAuth \/ isUserAuthorized(meRole, props.requiredRole) THEN firstChild
        ELSE IF Truthy(props.propsOverride)
        THEN cloneElement(firstChild, props.propsOverride.props)
        ELSE IF Truthy(props.replaceWith) THEN props.replaceWith
        ELSE Null

\* Authorized({children, me, isUsingAuth, requiredRole, replaceWith,
\* propsOverride}): what it renders.
Authorized(props) ==
    LET firstChild == FirstChild(props)
        meRole == getMeRole(props.me)
    IN  IF props.isUsingAuth.kind # "boolean" THEN Null
        ELSE IF ~props.isUsingAuth.v \/ isUserAuthorized(meRole, props.requiredRole)
        THEN firstChild
        ELSE IF Truthy(props.propsOverride)
        THEN cloneElement(firstChild, props.propsOverride.props)
        ELSE IF Truthy(props.replaceWith) THEN props.replaceWith
        ELSE Null

InitAuth ==
    /\ arg \in AuthProps
    /\ res = NoResult
    /\ NodeNew(<<>>, FALSE)
    /\ PlanIdle

CallIsUserAuthorized ==
    /\ res.op = "none"
    /\ res' = [op |-> "isUserAuthorized",
               v |-> isUserAuthorized(getMeRole(arg.me), arg.requiredRole)]
    /\ UNCHANGED <<arg, nodeVars, planVars>>

RenderAuthorized ==
    /\ res.op = "none"
    /\ res' = [op |-> "Authorized", v |-> Authorized(arg)]
    /\ UNCHANGED <<arg, nodeVars, planVars>>

NextAuth == CallIsUserAuthorized \/ RenderAuthorized

SpecAuth == InitAuth /\ [][NextAuth]_vars

\* The four roles by rank; 0 for a name that is none of them.
RoleRank(r) ==
    CASE r = VIEWER_ROLE -> 1
      [] r = EDITOR_ROLE -> 2
      [] r = ADMIN_ROLE -> 3
      [] r = SUPERADMIN_ROLE -> 4
      [] OTHER -> 0

\* C15: isUserAuthorized is true exactly when meRole and requiredRole are
\* both among viewer < editor < admin < superadmin and meRole ranks at or
\* above requiredRole; so whoever is authorised for a role is authorised for
\* every lower one, and 'none' (what getMeRole gives a user without roles),
\* any other name, and any unknown requiredRole are never authorised.
C15_RoleHierarchy ==
    res.op = "isUserAuthorized" =>
        /\ res.v = (/\ RoleRank(getMeRole(arg.me)) >= 1
                    /\ RoleRank(arg.requiredRole) >= 1
                    /\ RoleRank(getMeRole(arg.me)) >= RoleRank(arg.requiredRole))
        /\ res.v => \A lower \in RoleNames :
              (1 <= RoleRank(lower) /\ RoleRank(lower) <= RoleRank(arg.requiredRole)) =>
                  isUserAuthorized(getMeRole(arg.me), lower)
        /\ (arg.me = <<>> \/ arg.me[1].roles = <<>>) => getMeRole(arg.me) = "none" /\ ~res.v

\* An editor whose second role is admin asked for admin: refused, since the
\* first role alone counts.
C15_Witness ==
    /\ res.op = "isUserAuthorized"
    /\ arg.me # <<>>
    /\ Len(arg.me[1].roles) = 2
    /\ arg.me[1].roles[1].name = EDITOR_ROLE
    /\ arg.me[1].roles[2].name = ADMIN_ROLE
    /\ arg.requiredRole = ADMIN_ROLE
    /\ res.v = FALSE

\* The user's first role satisfies requiredRole.
MeAuthorized == isUserAuthorized(getMeRole(arg.me), arg.requiredRole)

\* C16: while isUsingAuth is not a boolean nothing is rendered; the child
\* itself is rendered only when auth is known to be off or the user's first
\* role satisfies requiredRole, and then it is; with auth on and the user
\* not authorised the child with propsOverride's props over its own is
\* rendered when propsOverride is given, else replaceWith, or nothing when
\* there is none.
C16_AuthorizedRender ==
    res.op = "Authorized" =>
        /\ arg.isUsingAuth.kind # "boolean" => res.v = Null
        /\ res.v = FirstChild(arg) <=>
              /\ arg.isUsingAuth.kind = "boolean"
              /\ ~arg.isUsingAuth.v \/ MeAuthorized
        /\ (arg.isUsingAuth.kind = "boolean" /\ arg.isUsingAuth.v /\ ~MeAuthorized) =>
              IF arg.propsOverride # Undefined
              THEN /\ res.v.kind = "element"
                   /\ res.v.ref # FirstChild(arg).ref
                   /\ \A k \in DOMAIN FirstChild(arg).props :
                         res.v.props[k] = IF k \in DOMAIN arg.propsOverride.props
                                          THEN arg.propsOverride.props[k]
                                          ELSE FirstChild(arg).props[k]
              ELSE IF arg.replaceWith.kind = "element" THEN res.v = arg.replaceWith
              ELSE res.v = Null

\* Auth is on, a viewer meets a control for editors, and the control is
\* rendered disabled.
C16_Witness ==
    /\ res.op = "Authorized"
    /\ arg.isUsingAuth = [kind |-> "boolean", v |-> TRUE]
    /\ getMeRole(arg.me) = VIEWER_ROLE
    /\ arg.requiredRole = EDITOR_ROLE
    /\ arg.propsOverride = [kind |-> "object", props |-> [disabled |-> TRUE]]
    /\ res.v.kind = "element"
    /\ res.v.props.disabled
    /\ res.v # FirstChild(arg)

\* --------------------------------------- the tabs of the values section
MaxSelects == 3     \* tab selections on one rule

\* const TABS = ['Threshold', 'Relative', 'Deadman'], indexed from 0 in the
\* code and from 1 here.
TABS == <<"Threshold", "Relative", "Deadman">>

\* rule.trigger is held in lower case, as isDeadman reads it.
Triggers == {"threshold", "relative", "deadman"}

Rules == [id : {"rule-1", "rule-2"}, trigger : Triggers]

\* _.startCase on a trigger: the word with its first letter in upper case.
startCase(t) ==
    CASE t = "threshold" -> "Threshold"
      [] t = "relative" -> "Relative"
      [] t = "deadman" -> "Deadman"
      [] OTHER -> t

\* TABS.indexOf(name): the index from 0, -1 when there is no such tab.
IndexOfTab(name) ==
    IF \E i \in DOMAIN TABS : TABS[i] = name
    THEN (CHOOSE i \in DOMAIN TABS : TABS[i] = name) - 1
    ELSE -1

\* initialIndex(rule): TABS.indexOf(_.startCase(rule.trigger))
initialIndex(rule) == IndexOfTab(startCase(rule.trigger))

\* isDeadman(rule): rule.trigger === 'deadman'
isDeadman(rule) == rule.trigger = "deadman"

\* handleChooseTrigger(rule, onChooseTrigger)(triggerIndex): the calls
\* onChooseTrigger has received after it, calls being those before.
handleChooseTrigger(rule, calls, triggerIndex) ==
    IF TABS[triggerIndex + 1] = rule.trigger
    THEN calls
    ELSE Append(calls, [id |-> rule.id, trigger |-> TABS[triggerIndex + 1]])

InitTabs ==
    /\ arg \in Rules
    /\ res = [op |-> "handleChooseTrigger", picked |-> <<>>, calls |-> <<>>]
    /\ NodeNew(<<>>, FALSE)
    /\ PlanIdle

\* The user selects the tab triggerIndex.
SelectTab(triggerIndex) ==
    /\ Len(res.picked) < MaxSelects
    /\ res' = [res EXCEPT !.picked = Append(@, triggerIndex),
                          !.calls = handleChooseTrigger(arg, @, triggerIndex)]
    /\ UNCHANGED <<arg, nodeVars, planVars>>

NextTabs == \E triggerIndex \in 0..(Len(TABS) - 1) : SelectTab(triggerIndex)

SpecTabs == InitTabs /\ [][NextTabs]_vars

\* C17 as claimed: selecting the tab of the rule's current trigger, the one
\* at initialIndex(rule) (the Deadman tab when isDeadman(rule)), does not
\* call onChooseTrigger, and selecting any other tab calls it exactly once,
\* with the rule's id and that tab's name.
C17_CurrentTabIsNoOp ==
    [][(Len(res'.picked) = Len(res.picked) + 1) =>
        LET triggerIndex == res'.picked[Len(res'.picked)]
        IN  /\ isDeadman(arg) => initialIndex(arg) = 2
            /\ IF triggerIndex = initialIndex(arg)
               THEN res'.calls = res.calls
               ELSE res'.calls =
                      Append(res.calls, [id |-> arg.id, trigger |-> TABS[triggerIndex + 1]])]_vars

====
